---- MODULE Spec2Model ----
(***************************************************************************)
(* Model of orogene's dependency graph (crates/node-maintainer/src/graph.rs)*)
(* and of the registry fetcher's use of the shared client mutex            *)
(* (crates/rogga/src/fetch/registry.rs).                                   *)
(*                                                                         *)
(* Strings are sequences of one-character strings, so that joining a       *)
(* node path with "/node_modules/" and iterating the components of a path  *)
(* are computed, not assumed.  Option<T> is a sequence of length 0 or 1.   *)
(***************************************************************************)
EXTENDS Integers, Sequences, FiniteSets, TLC

VARIABLES graph,    \* the Graph: root, node arena, edge arena
          last,     \* the last query applied to the graph and what it returned
          pending,  \* DemotionTargets the planner has still to apply
          pruned,   \* whether the pruning pass has run since the last demotion
          lock,     \* holder of the Mutex<OroClient>, an Option of a fetcher
          fpc,      \* per fetcher: the operation it runs and where it is in it
          cached    \* per fetcher: whether self.packument is Some

vars == <<graph, last, pending, pruned, lock, fpc, cached>>

graphVars == <<graph, last, pending, pruned>>
fetchVars == <<lock, fpc, cached>>

-----------------------------------------------------------------------------
(* Option *)

None == <<>>
Some(x) == <<x>>
Unwrap(o) == o[1]

-----------------------------------------------------------------------------
(* Strings, UniCase, Path *)

NM == <<"n","o","d","e","_","m","o","d","u","l","e","s">>
Slash == <<"/">>
Backslash == <<"\\">>
NMDelim == Slash \o NM \o Slash

FoldChar(c) ==
    CASE c = "A" -> "a"
      [] c = "B" -> "b"
      [] c = "E" -> "e"
      [] c = "S" -> "s"
      [] OTHER -> c

\* The folded form UniCase compares on.
Fold(s) == [i \in 1..Len(s) |-> FoldChar(s[i])]

\* UniCase<String> equality: case-insensitive.
UniEq(s, t) == Fold(s) = Fold(t)

\* BTreeMap<UniCase<String>, V>::get / contains_key: the map is a function
\* whose domain holds the keys as they were inserted.
MapHas(m, k) == \E key \in DOMAIN m : UniEq(key, k)
MapGet(m, k) ==
    IF MapHas(m, k) THEN Some(m[CHOOSE key \in DOMAIN m : UniEq(key, k)])
    ELSE None

StartsWithAt(s) == Len(s) > 0 /\ s[1] = "@"

RECURSIVE JoinWith(_, _)
\* Vec<String>::join(sep)
JoinWith(parts, sep) ==
    IF Len(parts) = 0 THEN <<>>
    ELSE IF Len(parts) = 1 THEN parts[1]
    ELSE parts[1] \o sep \o JoinWith(Tail(parts), sep)

RECURSIVE SplitSlash(_, _, _)
\* The Normal components of a path: the text between separators, empty
\* pieces dropped.
SplitSlash(p, i, cur) ==
    IF i > Len(p) THEN (IF cur = <<>> THEN <<>> ELSE <<cur>>)
    ELSE IF p[i] = "/"
         THEN (IF cur = <<>> THEN <<>> ELSE <<cur>>) \o SplitSlash(p, i + 1, <<>>)
         ELSE SplitSlash(p, i + 1, Append(cur, p[i]))

\* Path::iter(): a leading separator yields the root component "/", then the
\* Normal components.
Components(p) ==
    (IF Len(p) > 0 /\ p[1] = "/" THEN <<Slash>> ELSE <<>>) \o SplitSlash(p, 1, <<>>)

-----------------------------------------------------------------------------
(* Graph queries *)

HasNode(g, idx) == idx \in DOMAIN g.nodes

RECURSIVE ParentIterMissingSelf(_, _)
ParentIterMissingSelf(g, idx) ==
    LET res == g.nodes[idx] IN
    IF res.parent = None THEN <<>>
    ELSE <<Unwrap(res.parent)>> \o ParentIterMissingSelf(g, Unwrap(res.parent))

RECURSIVE NodeParentIter(_, _)
\* The nodes NodeParentIterator yields from node_parent_iter(idx): idx
\* itself first, then each parent in turn, the root last.
NodeParentIter(g, idx) ==
    LET res == g.nodes[idx] IN
    <<idx>> \o (IF res.parent = None THEN <<>>
                ELSE NodeParentIter(g, Unwrap(res.parent)))

FirstMatch(g, chain, dep) ==
    LET hits == {i \in 1..Len(chain) : MapHas(g.nodes[chain[i]].children, dep)} IN
    IF hits = {} THEN None
    ELSE LET i == CHOOSE j \in hits : \A k \in hits : j <= k
         IN  MapGet(g.nodes[chain[i]].children, dep)

ResolveDepOwnChildrenOnly(g, node, dep) == MapGet(g.nodes[node].children, dep)

ResolveDep(g, node, dep) == FirstMatch(g, NodeParentIter(g, node), dep)

IsAncestor(g, ancestor, descendant) ==
    LET chain == NodeParentIter(g, descendant) IN
    \E i \in 1..Len(chain) : g.nodes[chain[i]].idx = ancestor

DepthCountingSelf(g, node) == Len(NodeParentIter(g, g.nodes[node].idx))

Depth(g, node) == Len(NodeParentIter(g, g.nodes[node].idx)) - 1

FindByName(g, parent, name) == FirstMatch(g, NodeParentIter(g, parent), name)


RECURSIVE PathAbove(_, _)
\* The while-let loop of node_path: the names of the parents, outermost
\* first, stopping below the root.
PathAbove(g, parent) ==
    IF parent = None THEN <<>>
    ELSE LET parent_idx == Unwrap(parent) IN
         IF parent_idx = g.root THEN <<>>
         ELSE PathAbove(g, g.nodes[parent_idx].parent)
              \o <<g.nodes[parent_idx].package.name>>

\* VecDeque<UniCase<String>> of package names addressing node_idx.
NodePath(g, node_idx) ==
    LET node == g.nodes[node_idx] IN
    (IF node_idx # g.root THEN PathAbove(g, node.parent) ELSE <<>>)
    \o <<node.package.name>>

\* A panic (an index the arena does not hold) where an Option of an index is
\* returned otherwise.
Panic == <<-1, -1>>

RECURSIVE WalkPathNoScope(_, _, _, _, _, _)
WalkPathNoScope(g, comps, i, current, in_nm, scope) ==
    IF i > Len(comps) THEN Some(current)
    ELSE LET segment == comps[i] IN
         IF UniEq(segment, NM) \/ Slash = segment \/ Backslash = segment
         THEN WalkPathNoScope(g, comps, i + 1, current, TRUE, scope)
         ELSE IF ~in_nm THEN Some(current)
         ELSE IF ~HasNode(g, current) THEN Panic
         ELSE LET child == MapGet(g.nodes[current].children, segment) IN
              IF child # None
              THEN WalkPathNoScope(g, comps, i + 1, Unwrap(child), FALSE, scope)
              ELSE Some(current)

RECURSIVE WalkPath(_, _, _, _, _, _)
\* The for loop of node_at_path over the components from position i on,
\* with its three loop variables; the result is `current` when the loop
\* ends or breaks.  Indexing the arena with an index it does not hold
\* panics.
WalkPath(g, comps, i, current, in_nm, scope) ==
    IF i > Len(comps) THEN Some(current)
    ELSE LET raw_segment == comps[i]
             segment == raw_segment
         IN
         IF \/ (UniEq(segment, NM) /\ scope = None)
            \/ Slash = raw_segment
            \/ Backslash = raw_segment
         THEN WalkPath(g, comps, i + 1, current, TRUE, scope)
         ELSE IF ~in_nm THEN Some(current)
         ELSE IF StartsWithAt(segment)
              THEN WalkPath(g, comps, i + 1, current, in_nm, Some(segment))
         ELSE IF ~HasNode(g, current) THEN Panic
         ELSE IF scope # None
              THEN LET scoped_seg == Unwrap(scope) \o Slash \o segment
                       child == MapGet(g.nodes[current].children, scoped_seg)
                   IN  WalkPath(g, comps, i + 1,
                                IF child # None THEN Unwrap(child) ELSE current,
                                FALSE, None)
         ELSE LET child == MapGet(g.nodes[current].children, segment) IN
              IF child # None
              THEN WalkPath(g, comps, i + 1, Unwrap(child), FALSE, scope)
              ELSE Some(current)

\* node_at_path(path): Some(index of the node) or None; Panic when the node
\* reached is not in the arena.
NodeAtPath(g, path) ==
    LET current == WalkPath(g, Components(path), 1, g.root, TRUE, None) IN
    IF current = Panic THEN Panic
    ELSE IF current = Some(g.root) THEN None
    ELSE IF ~HasNode(g, Unwrap(current)) THEN Panic
    ELSE current

PackageAtPath(g, path) ==
    LET node == NodeAtPath(g, path) IN
    IF node = None \/ node = Panic THEN node
    ELSE Some(g.nodes[Unwrap(node)].package)


-----------------------------------------------------------------------------
(* validate *)

\* PackageResolution::satisfies(&PackageSpec): the requested range admits the
\* resolved version (the range names a major version).
Satisfies(resolved, requested) == resolved.version[1] = requested.range

RECURSIVE TreeIndices(_, _, _)
\* The indices the queue of validate's first loop pops, as long as each is
\* in the arena: frontier is the queue, seen what was popped.
TreeIndices(g, frontier, seen) ==
    IF frontier = {} THEN seen
    ELSE LET live == {n \in frontier : HasNode(g, n)}
             next == UNION {{g.nodes[n].children[k] : k \in DOMAIN g.nodes[n].children}
                            : n \in live}
         IN  TreeIndices(g, next \ (seen \cup frontier), seen \cup frontier)

\* The edge check without the satisfies test: any resolving node passes.
EdgeCheckReachableOnly(g, dependent, dep_name) ==
    LET node == g.nodes[dependent]
        dep == ResolveDep(g, node.idx, dep_name)
    IN  IF dep = None THEN "Err"
        ELSE IF ~HasNode(g, Unwrap(dep)) THEN "Panic"
        ELSE "Ok"

\* What one (dependent, dep_name, edge) of validate's second loop comes to.
EdgeCheck(g, dependent, dep_name) ==
    LET node == g.nodes[dependent]
        edge == g.edges[node.dependencies[dep_name]]
        dep == ResolveDep(g, node.idx, dep_name)
    IN  IF dep = None THEN "Err"
        ELSE IF ~HasNode(g, Unwrap(dep)) THEN "Panic"
        ELSE IF ~Satisfies(g.nodes[Unwrap(dep)].package.resolved, edge.requested)
             THEN "Err"
        ELSE "Ok"

\* Ord of UniCase<String>: the folded texts compared character by
\* character, a proper prefix first.
Alphabet == <<"/", "0", "1", "2", "@", "^", "_", "a", "b", "c", "d", "e",
              "l", "m", "n", "o", "r", "s", "u">>
CharRank(c) == CHOOSE i \in 1..Len(Alphabet) : Alphabet[i] = FoldChar(c)

RECURSIVE UniLess(_, _)
UniLess(s, t) ==
    IF t = <<>> THEN FALSE
    ELSE IF s = <<>> THEN TRUE
    ELSE IF CharRank(s[1]) # CharRank(t[1]) THEN CharRank(s[1]) < CharRank(t[1])
    ELSE UniLess(Tail(s), Tail(t))

\* validate(): "Ok", "Err" (a GraphValidationError) or "Panic".  The first
\* loop visits what is reachable from the root through children; the second
\* visits the arena's nodes in index order and each node's dependencies in
\* key order, and the first edge that is not satisfied decides.
Validate(g) ==
    IF \E n \in TreeIndices(g, {g.root}, {}) : ~HasNode(g, n) THEN "Err"
    ELSE LET bad == {e \in {<<d, k>> : d \in DOMAIN g.nodes, k \in UNION
                                {DOMAIN g.nodes[n].dependencies : n \in DOMAIN g.nodes}} :
                        /\ e[2] \in DOMAIN g.nodes[e[1]].dependencies
                        /\ EdgeCheck(g, e[1], e[2]) # "Ok"}
             Before(e, f) == e[1] < f[1] \/ (e[1] = f[1] /\ UniLess(e[2], f[2]))
         IN  IF bad = {} THEN "Ok"
             ELSE LET first == CHOOSE e \in bad : \A f \in bad \ {e} : Before(e, f)
                  IN  EdgeCheck(g, first[1], first[2])


-----------------------------------------------------------------------------
(* Lockfile export *)

DepTypes == {"Prod", "Dev", "Peer", "Opt"}

DepsAllInProd(g, node, t) ==
    IF t = "Prod"
    THEN [name \in DOMAIN node.dependencies |->
            g.edges[node.dependencies[name]].requested.requested]
    ELSE [name \in {} |-> <<>>]

\* One of the four maps node_lockfile_node fills: name.to_string() to
\* requested.requested() for the edges whose dep_type is t.
DepsOfType(g, node, t) ==
    LET names == {name \in DOMAIN node.dependencies :
                    g.edges[node.dependencies[name]].dep_type = t}
    IN  [name \in names |-> g.edges[node.dependencies[name]].requested.requested]

NodeLockfileNode(g, node_idx, is_root) ==
    LET path == NodePath(g, node_idx)
        node == g.nodes[node_idx]
        resolved == node.package.resolved
    IN  [name |-> node.package.name,
         is_root |-> is_root,
         path |-> path,
         resolved |-> Some(resolved.locator),
         version |-> IF resolved.kind = "Npm" THEN Some(resolved.version) ELSE None,
         dependencies |-> DepsOfType(g, node, "Prod"),
         dev_dependencies |-> DepsOfType(g, node, "Dev"),
         peer_dependencies |-> DepsOfType(g, node, "Peer"),
         optional_dependencies |-> DepsOfType(g, node, "Opt"),
         integrity |-> IF resolved.kind = "Npm" THEN resolved.integrity ELSE None]

\* The key to_lockfile gives a record: its path joined with
\* "/node_modules/".
PackageKey(node) == JoinWith(node.path, NMDelim)

\* BTreeMap<UniCase<String>, V> built from an iterator of pairs: of two
\* pairs with equal keys the later one stays.
MapInsert(m, k, v) ==
    LET kept == {key \in DOMAIN m : ~UniEq(key, k)} IN
    [key \in kept \cup {k} |-> IF key = k THEN v ELSE m[key]]

RECURSIVE CollectPackages(_, _, _)
\* The map/collect of to_lockfile over the indices still to visit, in index
\* order.
CollectPackages(g, todo, acc) ==
    IF todo = {} THEN acc
    ELSE LET idx == CHOOSE i \in todo : \A j \in todo : i <= j
             node == NodeLockfileNode(g, idx, FALSE)
         IN  CollectPackages(g, todo \ {idx}, MapInsert(acc, PackageKey(node), node))

EmptyMap == [k \in {} |-> <<>>]

ToLockfile(g) ==
    [version |-> 1,
     root |-> NodeLockfileNode(g, g.root, TRUE),
     packages |-> CollectPackages(g, {idx \in DOMAIN g.nodes : idx # g.root}, EmptyMap)]


-----------------------------------------------------------------------------
(* The graphs the queries are applied to *)

UpChar(c) ==
    CASE c = "a" -> "A"
      [] c = "b" -> "B"
      [] c = "e" -> "E"
      [] c = "s" -> "S"
      [] OTHER -> c
Upper(s) == [i \in 1..Len(s) |-> UpChar(s[i])]

NameR == <<"r">>
NameA == <<"a">>
NameB == <<"b">>
NameE == <<"e">>
NameScopedA == <<"@", "s", "/", "a">>
NameScopedNM == <<"@", "s", "/">> \o NM

Version120 == <<1, 2, 0>>
Version200 == <<2, 0, 0>>

\* A registry package: Package with PackageResolution::Npm.
NpmPackage(name, version) ==
    [name |-> name,
     resolved |-> [kind |-> "Npm", version |-> version,
                   locator |-> <<"tarball", name, version>>, integrity |-> None]]

\* PackageSpec: the text as requested and the range it parses to.
RangeSpec(major) ==
    [requested |-> IF major = 1 THEN "^1.0" ELSE "^2.0", range |-> major]

\* Edge::new
NewEdge(requested, dep_type) == [requested |-> requested, dep_type |-> dep_type]

\* The graph a planner has built: ns[i] places node i under ns[i].par with
\* package ns[i].nm @ ns[i].ver, entered in its parent's children under
\* ns[i].key.  ns[i].st is "attached" (in the arena and in its parent's
\* children), "orphan" (in the arena, taken out of its parent's children,
\* not pruned yet) or "removed" (taken out of the arena, still in its
\* parent's children).  es are the dependency edges, edge j wired from
\* es[j].dependent.  The root is node 0.
MkGraph(ns, es) ==
    LET n == Len(ns)
        live == {0} \cup {i \in 1..n : ns[i].st # "removed"}
        kids(p) == {i \in 1..n : ns[i].par = p /\ ns[i].st # "orphan"}
        deps(d) == {j \in 1..Len(es) : es[j].dependent = d}
        node(i) ==
            [idx |-> i,
             package |-> IF i = 0 THEN NpmPackage(NameR, Version120)
                         ELSE NpmPackage(ns[i].nm, ns[i].ver),
             root |-> 0,
             parent |-> IF i = 0 THEN None ELSE Some(ns[i].par),
             children |-> [k \in {ns[i2].key : i2 \in kids(i)} |->
                             CHOOSE i2 \in kids(i) : ns[i2].key = k],
             dependencies |-> [k \in {es[j].name : j \in deps(i)} |->
                                 CHOOSE j \in deps(i) : es[j].name = k]]
    IN  [root |-> 0,
         nodes |-> [i \in live |-> node(i)],
         edges |-> [j \in 1..Len(es) |-> NewEdge(es[j].requested, es[j].dep_type)]]

Count(ns, st) == Cardinality({i \in 1..Len(ns) : ns[i].st = st})

\* Whether node x may follow the nodes ns: its parent is in the arena, and
\* its key differs, as UniCase compares, from those of its parent's other
\* children.
MayPlace(ns, x, maxOrphans, maxRemoved) ==
    /\ x.par = 0 \/ ns[x.par].st # "removed"
    /\ x.st = "orphan" \/ \A i \in 1..Len(ns) :
          (ns[i].par = x.par /\ ns[i].st # "orphan") => ~UniEq(ns[i].key, x.key)
    /\ x.st = "orphan" => Count(ns, "orphan") < maxOrphans
    /\ x.st = "removed" => Count(ns, "removed") < maxRemoved

RECURSIVE Placements(_, _, _, _, _, _)
\* The ways to place n nodes under the root: parents come first, and a child
\* is entered under its package's name, in the letter case of the name or,
\* with `cased`, in upper case.
Placements(n, names, cased, versions, maxOrphans, maxRemoved) ==
    IF n = 0 THEN {<<>>}
    ELSE LET before == Placements(n - 1, names, cased, versions, maxOrphans, maxRemoved)
             choice == {[par |-> p, nm |-> nm, key |-> k, ver |-> v, st |-> st] :
                          p \in 0..(n - 1), nm \in names,
                          k \in names \cup {Upper(x) : x \in names}, v \in versions,
                          st \in {"attached", "orphan", "removed"}}
         IN  {Append(ns, x) : <<ns, x>> \in
                {y \in before \X {x \in choice :
                                    x.key = x.nm \/ (cased /\ x.key = Upper(x.nm))} :
                    MayPlace(y[1], y[2], maxOrphans, maxRemoved)}}

RECURSIVE Wirings(_, _, _, _, _)
\* The ways to wire at most k edges from the nodes `from`, in the order of
\* (dependent, name): the names of one node's dependencies are distinct as
\* UniCase compares them.
Wirings(k, from, depNames, ranges, types) ==
    IF k = 0 THEN {<<>>}
    ELSE LET before == Wirings(k - 1, from, depNames, ranges, types)
             choice == [dependent : from, name : depNames,
                        requested : {RangeSpec(r) : r \in ranges}, dep_type : types]
             follows(es, e) ==
                 es = <<>> \/ LET l == es[Len(es)] IN
                    \/ l.dependent < e.dependent
                    \/ l.dependent = e.dependent /\ UniLess(l.name, e.name)
         IN  before \cup {Append(y[1], y[2]) : y \in
                {y \in {b \in before : Len(b) = k - 1} \X choice : follows(y[1], y[2])}}

\* The graph is one a planner has built of at most maxNodes nodes and
\* maxEdges edges.
GraphBuilt(maxNodes, names, cased, versions, maxOrphans, maxRemoved, maxEdges, depNames, ranges, types) ==
    \E n \in 0..(maxNodes - 1) :
        \E ns \in Placements(n, names, cased, versions, maxOrphans, maxRemoved) :
            \E es \in Wirings(maxEdges, {0} \cup {i \in 1..n : ns[i].st # "removed"},
                              depNames, ranges, types) :
                graph = MkGraph(ns, es)

NoQuery == [op |-> "none", args |-> <<>>, ret |-> <<>>]
Query(op, args, ret) == [op |-> op, args |-> args, ret |-> ret]

NoFetch ==
    /\ lock = None
    /\ fpc = <<>>
    /\ cached = <<>>

-----------------------------------------------------------------------------
(* Hierarchy queries: resolve_dep, is_ancestor, depth *)

HierMaxNodes == 4

HierDepNames == {NameA, Upper(NameA), NameB}

InitHier ==
    /\ GraphBuilt(HierMaxNodes, {NameA, NameB}, FALSE,
                        {Version120, Version200}, 0, 0, 0, {NameA}, {1}, {"Prod"})
    /\ last = NoQuery
    /\ pending = {}
    /\ pruned = FALSE
    /\ NoFetch

CallResolveDep ==
    \E node \in DOMAIN graph.nodes, dep \in HierDepNames :
        /\ last' = Query("resolve_dep", <<node, dep>>, ResolveDep(graph, node, dep))
        /\ UNCHANGED <<graph, pending, pruned, fetchVars>>

CallIsAncestor ==
    \E ancestor \in DOMAIN graph.nodes, descendant \in DOMAIN graph.nodes :
        /\ last' = Query("is_ancestor", <<ancestor, descendant>>,
                         IsAncestor(graph, ancestor, descendant))
        /\ UNCHANGED <<graph, pending, pruned, fetchVars>>

CallDepth ==
    \E node \in DOMAIN graph.nodes :
        /\ last' = Query("depth", <<node>>, Depth(graph, node))
        /\ UNCHANGED <<graph, pending, pruned, fetchVars>>

NextHier == CallResolveDep \/ CallIsAncestor \/ CallDepth

SpecHier == InitHier /\ [][NextHier]_vars


-----------------------------------------------------------------------------
(* What the claims speak of, stated on the parent and children links *)

RECURSIVE Up(_, _, _)
\* The node k parent links above n, if there is one.
Up(g, n, k) ==
    IF k = 0 THEN Some(n)
    ELSE IF g.nodes[n].parent = None THEN None
    ELSE Up(g, Unwrap(g.nodes[n].parent), k - 1)

Levels(g) == 0..Cardinality(DOMAIN g.nodes)

\* The children of node a entered under a name equal to d but for letter case.
ChildrenNamed(g, a, d) ==
    {g.nodes[a].children[k] : k \in {x \in DOMAIN g.nodes[a].children : Fold(x) = Fold(d)}}

\* The levels above n (0 is n itself) whose node has a child named d.
LevelsWith(g, n, d) ==
    {k \in Levels(g) : Up(g, n, k) # None /\ ChildrenNamed(g, Unwrap(Up(g, n, k)), d) # {}}

VersionOf(g, idx) == g.nodes[idx].package.resolved.version

\* Scenario A: the root has a child A at 1.2.0 (x) and a child B (y), and B
\* has a child A of its own at 2.0.0 (z).
ScenarioA(g, x, y, z) ==
    /\ {x, y, z} \subseteq DOMAIN g.nodes
    /\ ChildrenNamed(g, g.root, NameA) = {x} /\ VersionOf(g, x) = Version120
    /\ ChildrenNamed(g, g.root, NameB) = {y}
    /\ ChildrenNamed(g, y, NameA) = {z} /\ VersionOf(g, z) = Version200

\* C1: resolve_dep(n, d) returns the child named d of the nearest node on
\* n's parent chain (n first, the root last) that has one, and None exactly
\* when no node of the chain has one; in scenario A resolve_dep(B, A) is the
\* 2.0.0 node and resolve_dep(root, A) the 1.2.0 node.
C1_ResolveDepNearest ==
    last.op = "resolve_dep" =>
        LET n == last.args[1]
            d == last.args[2]
            with == LevelsWith(graph, n, d)
        IN  /\ with = {} <=> last.ret = None
            /\ with # {} =>
                 LET k == CHOOSE k \in with : \A j \in with : k <= j
                 IN  {Unwrap(last.ret)} = ChildrenNamed(graph, Unwrap(Up(graph, n, k)), d)
            /\ \A x, y, z \in DOMAIN graph.nodes :
                 (ScenarioA(graph, x, y, z) /\ UniEq(d, NameA)) =>
                    /\ n = y => last.ret = Some(z)
                    /\ n = graph.root => last.ret = Some(x)

\* Scenario A was built and resolve_dep(B, A) returned B's own 2.0.0 copy.
C1_Witness ==
    /\ last.op = "resolve_dep"
    /\ \E x, y, z \in DOMAIN graph.nodes :
          /\ ScenarioA(graph, x, y, z)
          /\ last.args = <<y, NameA>>
          /\ last.ret = Some(z)
          /\ x # z

\* C3 as claimed: is_ancestor(root, x) for every non-root x, never
\* is_ancestor(x, x), and is_ancestor(a, b) iff a is met going up from b.
C3_IsAncestorStrict ==
    last.op = "is_ancestor" =>
        LET a == last.args[1]
            b == last.args[2]
        IN  /\ (a = graph.root /\ b # graph.root) => last.ret
            /\ a = b => ~last.ret
            /\ last.ret <=> \E k \in Levels(graph) \ {0} : Up(graph, b, k) = Some(a)

\* The number of nodes strictly above n on its parent chain, with or
\* without the root.
Above(g, n, countRoot) ==
    Cardinality({k \in Levels(g) \ {0} :
                   /\ Up(g, n, k) # None
                   /\ countRoot \/ Up(g, n, k) # Some(g.root)})

\* C10 as claimed: depth(n) is the number of nodes strictly above n and
\* strictly below the root.
C10_DepthRootExcluded ==
    last.op = "depth" => last.ret = Above(graph, last.args[1], FALSE)

\* C10 amended: depth(n) is the number of nodes strictly above n on its
\* parent chain, the root included: 0 for the root, 1 for its children.
C10_DepthRootIncluded ==
    last.op = "depth" => last.ret = Above(graph, last.args[1], TRUE)

\* depth was taken of a node two levels below the root.
C10_Witness ==
    /\ last.op = "depth"
    /\ last.ret = 2
    /\ Up(graph, last.args[1], 2) = Some(graph.root)


-----------------------------------------------------------------------------
(* validate *)

ValMaxNodes == 3
ValMaxEdges == 1
ValMaxOrphans == 1
ValMaxRemoved == 1

InitValidate ==
    /\ GraphBuilt(ValMaxNodes, {NameA, NameB}, FALSE, {Version120, Version200},
                        ValMaxOrphans, ValMaxRemoved,
                        ValMaxEdges, {NameA, Upper(NameB)}, {1, 2}, {"Prod"})
    /\ last = NoQuery
    /\ pending = {}
    /\ pruned = FALSE
    /\ NoFetch

CallValidate ==
    /\ last' = Query("validate", <<>>, Validate(graph))
    /\ UNCHANGED <<graph, pending, pruned, fetchVars>>

NextValidate == CallValidate

SpecValidate == InitValidate /\ [][NextValidate]_vars

RECURSIVE Below(_, _, _)
\* The indices at most k children links below those of S.
Below(g, S, k) ==
    IF k = 0 THEN S
    ELSE Below(g, S \cup {c \in UNION {ChildrenNamed(g, p, key) :
                                         p \in S \cap DOMAIN g.nodes,
                                         key \in UNION {DOMAIN g.nodes[q].children :
                                                          q \in DOMAIN g.nodes}} : TRUE},
               k - 1)

Reachable(g) == Below(g, {g.root}, Cardinality(DOMAIN g.nodes) + 1)

\* Every index reachable from the root through children is in the arena.
TreeInArena(g) == Reachable(g) \subseteq DOMAIN g.nodes

\* The edge `name` of node D is met by the hierarchy: the nearest node going
\* up from D (D first) that has a child named `name` has there a node whose
\* package satisfies the edge's requirement.
EdgeResolved(g, D, name) ==
    LET with == LevelsWith(g, D, name) IN
    /\ with # {}
    /\ LET k == CHOOSE k \in with : \A j \in with : k <= j
           edge == g.edges[g.nodes[D].dependencies[name]]
       IN  \A c \in ChildrenNamed(g, Unwrap(Up(g, D, k)), name) :
              /\ c \in DOMAIN g.nodes
              /\ VersionOf(g, c)[1] = edge.requested.range

ResolutionInvariant(g) ==
    \A D \in DOMAIN g.nodes : \A name \in DOMAIN g.nodes[D].dependencies :
        EdgeResolved(g, D, name)

\* C2 as claimed: validate() succeeds iff the resolution invariant holds for
\* every node and edge.
C2_ValidateIffResolution ==
    last.op = "validate" => (last.ret = "Ok" <=> ResolutionInvariant(graph))

\* C2 amended: validate() succeeds iff every node reachable from the root
\* through children is in the arena and the resolution invariant holds for
\* every node and edge.
C2_ValidateIffTreeAndResolution ==
    last.op = "validate" =>
        (last.ret = "Ok" <=> (TreeInArena(graph) /\ ResolutionInvariant(graph)))

\* validate() succeeded on a graph with an edge that a child of a node
\* further up satisfies.
C2_Witness ==
    /\ last.op = "validate"
    /\ last.ret = "Ok"
    /\ \E D \in DOMAIN graph.nodes : \E name \in DOMAIN graph.nodes[D].dependencies :
          /\ D # graph.root
          /\ 0 \notin LevelsWith(graph, D, name)


-----------------------------------------------------------------------------
(* Paths and the lockfile's packages: node_path, node_at_path, to_lockfile *)

PathMaxNodes == 3
PathMaxLen == 2

NameScopedB == <<"@", "s", "/", "b">>

\* The package names looked up: NameScopedB is the name of no package.
PathNames == {NameA, NameScopedB}

InitPath ==
    /\ GraphBuilt(PathMaxNodes, {NameA, NameScopedA, NameScopedNM}, TRUE, {Version120},
                  0, 0, 0, {NameA}, {1}, {"Prod"})
    /\ last = NoQuery
    /\ pending = {}
    /\ pruned = FALSE
    /\ NoFetch

\* node_at_path on the path to_lockfile keys node x by.
CallRoundTrip ==
    \E x \in DOMAIN graph.nodes \ {graph.root} :
        LET path == JoinWith(NodePath(graph, x), NMDelim) IN
        /\ last' = Query("round_trip", <<x, path>>, NodeAtPath(graph, path))
        /\ UNCHANGED <<graph, pending, pruned, fetchVars>>

\* node_at_path on the path that names the packages `names`, outermost first.
CallNodeAtPath ==
    \E k \in 1..PathMaxLen : \E names \in [1..k -> PathNames] :
        LET path == JoinWith(names, NMDelim) IN
        /\ last' = Query("node_at_path", <<names, path>>, NodeAtPath(graph, path))
        /\ UNCHANGED <<graph, pending, pruned, fetchVars>>

NextPath == CallRoundTrip \/ CallNodeAtPath

SpecPath == InitPath /\ [][NextPath]_vars

\* C4: for every non-root node x reachable from the root through children,
\* node_at_path of node_path(x) joined with "/node_modules/" is x, also
\* when names on the path are scoped and when a child is entered under a
\* name in another letter case.
C4_PathRoundTrip ==
    last.op = "round_trip" =>
        LET x == last.args[1] IN
        x \in Reachable(graph) \ {graph.root} => last.ret = Some(x)

\* The round trip was made for a node under a scoped package, itself scoped
\* and entered in upper case.
C4_Witness ==
    /\ last.op = "round_trip"
    /\ last.ret = Some(last.args[1])
    /\ LET x == last.args[1]
           p == Unwrap(graph.nodes[x].parent)
       IN  /\ p # graph.root
           /\ p \in Reachable(graph)
           /\ StartsWithAt(graph.nodes[p].package.name)
           /\ StartsWithAt(graph.nodes[x].package.name)
           /\ Upper(graph.nodes[x].package.name) \in DOMAIN graph.nodes[p].children

RECURSIVE Descend(_, _, _)
\* The node reached from cur by one child lookup per name, None when a name
\* is no key of the children of the node reached so far.
Descend(g, cur, names) ==
    IF names = <<>> THEN Some(cur)
    ELSE LET c == ChildrenNamed(g, cur, Head(names)) IN
         IF c = {} THEN None
         ELSE Descend(g, CHOOSE x \in c : TRUE, Tail(names))

\* C5 as claimed: node_at_path returns nothing whenever some name of the
\* path is no key of the children of the node reached so far, and nothing
\* when the walk ends at the root; it returns a node only when every name
\* was matched by a child lookup.
C5_DeadEndIsNone ==
    last.op = "node_at_path" =>
        LET reached == Descend(graph, graph.root, last.args[1]) IN
        /\ reached = None => last.ret = None
        /\ last.ret # None => reached = last.ret

-----------------------------------------------------------------------------
(* The lockfile's packages: to_lockfile *)

LockMaxNodes == 3
LockMaxOrphans == 1

InitLock ==
    /\ GraphBuilt(LockMaxNodes, {NameA, NameScopedA}, TRUE, {Version120, Version200},
                  LockMaxOrphans, 0, 0, {NameA}, {1}, {"Prod"})
    /\ last = NoQuery
    /\ pending = {}
    /\ pruned = FALSE
    /\ NoFetch

CallToLockfile ==
    /\ last' = Query("to_lockfile", <<>>, ToLockfile(graph))
    /\ UNCHANGED <<graph, pending, pruned, fetchVars>>

CallPackageAtPath ==
    \E name \in {NameA, NameScopedA} :
        /\ last' = Query("package_at_path", <<name>>, PackageAtPath(graph, name))
        /\ UNCHANGED <<graph, pending, pruned, fetchVars>>

NextLock == CallToLockfile \/ CallPackageAtPath

SpecLock == InitLock /\ [][NextLock]_vars

\* C6 as claimed: the packages of to_lockfile() hold exactly one record per
\* non-root node reachable from the root, under that node's joined
\* node_path, none for the root and none for a node that is not reachable.
C6_OneRecordPerReachable ==
    last.op = "to_lockfile" =>
        LET packages == last.ret.packages
            nodes == Reachable(graph) \ {graph.root}
            keyOf(x) == JoinWith(NodePath(graph, x), NMDelim)
        IN  /\ Cardinality(DOMAIN packages) = Cardinality(nodes)
            /\ \A x \in nodes : \E key \in DOMAIN packages :
                  /\ Fold(key) = Fold(keyOf(x))
                  /\ packages[key] = NodeLockfileNode(graph, x, FALSE)
            /\ \A key \in DOMAIN packages : \E x \in nodes :
                  /\ Fold(key) = Fold(keyOf(x))
                  /\ packages[key] = NodeLockfileNode(graph, x, FALSE)


-----------------------------------------------------------------------------
(* One lockfile record: node_lockfile_node *)

RecMaxNodes == 2
RecMaxEdges == 2

InitRecord ==
    /\ GraphBuilt(RecMaxNodes, {NameA}, FALSE, {Version200},
                  0, 0, RecMaxEdges, {NameA, Upper(NameB)}, {1, 2}, DepTypes)
    /\ last = NoQuery
    /\ pending = {}
    /\ pruned = FALSE
    /\ NoFetch

CallNodeLockfileNode ==
    \E node \in DOMAIN graph.nodes :
        /\ last' = Query("node_lockfile_node", <<node>>,
                         NodeLockfileNode(graph, node, node = graph.root))
        /\ UNCHANGED <<graph, pending, pruned, fetchVars>>

NextRecord == CallNodeLockfileNode

SpecRecord == InitRecord /\ [][NextRecord]_vars

\* The four dependency maps of a lockfile record, by dependency type.
MapOfType(rec, t) ==
    CASE t = "Prod" -> rec.dependencies
      [] t = "Dev" -> rec.dev_dependencies
      [] t = "Peer" -> rec.peer_dependencies
      [] t = "Opt" -> rec.optional_dependencies

\* C7: in the record built for a node, every edge of the node is in exactly
\* one of the four maps, the one of its dependency type, under its name and
\* with the specifier text it was requested with; the maps hold nothing
\* else.
C7_EdgesInTheirMap ==
    last.op = "node_lockfile_node" =>
        LET node == graph.nodes[last.args[1]]
            rec == last.ret
        IN  /\ \A name \in DOMAIN node.dependencies :
                  LET edge == graph.edges[node.dependencies[name]] IN
                  \A t \in DepTypes :
                      IF t = edge.dep_type
                      THEN /\ name \in DOMAIN MapOfType(rec, t)
                           /\ MapOfType(rec, t)[name] = edge.requested.requested
                      ELSE name \notin DOMAIN MapOfType(rec, t)
            /\ \A t \in DepTypes : DOMAIN MapOfType(rec, t) \subseteq DOMAIN node.dependencies

\* A record was built for a node with two edges of different types and
\* different requested texts.
C7_Witness ==
    /\ last.op = "node_lockfile_node"
    /\ \E n1, n2 \in DOMAIN graph.nodes[last.args[1]].dependencies :
          LET e1 == graph.edges[graph.nodes[last.args[1]].dependencies[n1]]
              e2 == graph.edges[graph.nodes[last.args[1]].dependencies[n2]]
          IN  /\ e1.dep_type = "Dev" /\ e2.dep_type = "Peer"
              /\ e1.requested.requested # e2.requested.requested
              /\ last.ret.dev_dependencies[n1] = e1.requested.requested
              /\ last.ret.peer_dependencies[n2] = e2.requested.requested


-----------------------------------------------------------------------------
(* Hoisting: applying DemotionTargets and pruning (scenario B) *)

Version130 == <<1, 3, 0>>

NameC == <<"c">>
NameD == <<"d">>

NodeC == 1
NodeD == 2
EdgeOfC == 1
EdgeOfD == 2

DemotionTarget(target_idx, dependent_idx, edge_idx) ==
    [target_idx |-> target_idx, dependent_idx |-> dependent_idx, edge_idx |-> edge_idx]

\* BTreeMap::insert: the value under an equal key is replaced, the key kept.
MapPut(m, k, v) ==
    IF MapHas(m, k)
    THEN [key \in DOMAIN m |-> IF UniEq(key, k) THEN v ELSE m[key]]
    ELSE [key \in DOMAIN m \cup {k} |-> IF key = k THEN v ELSE m[key]]

\* BTreeMap::remove
MapRemove(m, k) == [key \in {x \in DOMAIN m : ~UniEq(x, k)} |-> m[key]]

\* Scenario B before hoisting: C and D under the root, each with an edge
\* e@^1.0 and a copy of e of its own (nodes 3 and 4); with rootE, the root
\* has a copy of e too (node 5).
ScenarioB(verC, verD, keyC, keyD, rootE, verRoot) ==
    LET ns == <<[par |-> 0, nm |-> NameC, key |-> NameC, ver |-> Version120, st |-> "attached"],
                [par |-> 0, nm |-> NameD, key |-> NameD, ver |-> Version120, st |-> "attached"],
                [par |-> NodeC, nm |-> NameE, key |-> keyC, ver |-> verC, st |-> "attached"],
                [par |-> NodeD, nm |-> NameE, key |-> keyD, ver |-> verD, st |-> "attached"]>>
              \o (IF rootE
                  THEN <<[par |-> 0, nm |-> NameE, key |-> NameE, ver |-> verRoot,
                          st |-> "attached"]>>
                  ELSE <<>>)
        es == <<[dependent |-> NodeC, name |-> NameE, requested |-> RangeSpec(1),
                 dep_type |-> "Prod"],
                [dependent |-> NodeD, name |-> NameE, requested |-> RangeSpec(1),
                 dep_type |-> "Prod"]>>
    IN  MkGraph(ns, es)

InitHoist ==
    /\ \E verC, verD \in {Version120, Version130}, keyC, keyD \in {NameE, Upper(NameE)},
          rootE \in BOOLEAN, verRoot \in {Version120, Version200} :
          graph = ScenarioB(verC, verD, keyC, keyD, rootE, verRoot)
    /\ pending = {DemotionTarget(0, NodeC, EdgeOfC), DemotionTarget(0, NodeD, EdgeOfD)}
    /\ pruned = FALSE
    /\ last = NoQuery
    /\ NoFetch

\* Applying one target: the dependency of edge_idx from dependent_idx is to
\* be satisfied by target_idx.children[name].  A satisfying copy already
\* there is reused and the copy found so far is taken out of its parent's
\* children; otherwise the copy found so far is relocated under target_idx.
\* Only parent and children change.
ApplyDemotion ==
    \E t \in pending :
        LET dependent == graph.nodes[t.dependent_idx]
            name == CHOOSE k \in DOMAIN dependent.dependencies :
                        dependent.dependencies[k] = t.edge_idx
            edge == graph.edges[t.edge_idx]
            cur == ResolveDep(graph, t.dependent_idx, name)
            there == MapGet(graph.nodes[t.target_idx].children, name)
            reuse == /\ there # None
                     /\ Satisfies(graph.nodes[Unwrap(there)].package.resolved,
                                  edge.requested)
        IN  /\ cur # None
            /\ LET c == Unwrap(cur)
                   old == Unwrap(graph.nodes[c].parent)
                   detached == [graph.nodes EXCEPT
                                  ![old].children = MapRemove(@, name)]
               IN  graph' =
                     IF reuse
                     THEN IF there = cur THEN graph
                          ELSE [graph EXCEPT !.nodes = detached]
                     ELSE [graph EXCEPT !.nodes =
                             [detached EXCEPT
                                ![t.target_idx].children = MapPut(@, name, c),
                                ![c].parent = Some(t.target_idx)]]
            /\ pending' = pending \ {t}
            /\ pruned' = FALSE
            /\ last' = NoQuery
            /\ UNCHANGED fetchVars

\* The pruning pass, once every target is applied: what is not reachable
\* from the root through children leaves the arena.  What a query returned
\* of the graph before is dropped with every change of the graph.
Prune ==
    /\ pending = {}
    /\ ~pruned
    /\ graph' = [graph EXCEPT !.nodes =
                   [i \in DOMAIN graph.nodes \cap TreeIndices(graph, {graph.root}, {})
                      |-> graph.nodes[i]]]
    /\ pruned' = TRUE
    /\ last' = NoQuery
    /\ UNCHANGED <<pending, fetchVars>>

HoistResolveDep ==
    \E node \in DOMAIN graph.nodes :
        /\ last' = Query("resolve_dep", <<node, NameE>>, ResolveDep(graph, node, NameE))
        /\ UNCHANGED <<graph, pending, pruned, fetchVars>>

HoistValidate ==
    /\ last' = Query("validate", <<>>, Validate(graph))
    /\ UNCHANGED <<graph, pending, pruned, fetchVars>>

NextHoist == ApplyDemotion \/ Prune \/ HoistResolveDep \/ HoistValidate

SpecHoist == InitHoist /\ [][NextHoist]_vars

NodesNamed(g, name) == {n \in DOMAIN g.nodes : UniEq(g.nodes[n].package.name, name)}

\* C9: once both targets are applied and the graph is pruned, exactly one
\* node e is left, a child of the root; resolve_dep(C, e) and
\* resolve_dep(D, e) return it, neither C nor D has e among its children,
\* the edges of C and D are as they were, and the resolution invariant
\* holds (validate succeeds).
C9_HoistedToRoot ==
    (pending = {} /\ pruned) =>
        /\ Cardinality(NodesNamed(graph, NameE)) = 1
        /\ \A e \in NodesNamed(graph, NameE) :
              /\ graph.nodes[e].parent = Some(graph.root)
              /\ ChildrenNamed(graph, graph.root, NameE) = {e}
              /\ (last.op = "resolve_dep" /\ last.args[1] \in {NodeC, NodeD})
                    => last.ret = Some(e)
        /\ ChildrenNamed(graph, NodeC, NameE) = {}
        /\ ChildrenNamed(graph, NodeD, NameE) = {}
        /\ graph.nodes[NodeC].dependencies = (NameE :> EdgeOfC)
        /\ graph.nodes[NodeD].dependencies = (NameE :> EdgeOfD)
        /\ graph.edges = <<NewEdge(RangeSpec(1), "Prod"), NewEdge(RangeSpec(1), "Prod")>>
        /\ ResolutionInvariant(graph)
        /\ last.op = "validate" => last.ret = "Ok"

\* After hoisting and pruning, resolve_dep(D, e) returned the copy that was
\* C's own and is now the root's.
C9_Witness ==
    /\ pending = {}
    /\ pruned
    /\ last = Query("resolve_dep", <<NodeD, NameE>>, Some(3))
    /\ ChildrenNamed(graph, graph.root, NameE) = {3}
    /\ 4 \notin DOMAIN graph.nodes


-----------------------------------------------------------------------------
(* RegistryFetcher: fetchers sharing one Arc<Mutex<OroClient>> *)

NumFetchers == 2

Fetchers == 1..NumFetchers

Idle == [op |-> "none", at |-> "idle"]

NoGraph ==
    /\ graph = MkGraph(<<>>, <<>>)
    /\ last = NoQuery
    /\ pending = {}
    /\ pruned = FALSE

\* RegistryFetcher::new for every fetcher, with the one client.
InitFetch ==
    /\ lock = None
    /\ fpc = [f \in Fetchers |-> Idle]
    /\ cached = [f \in Fetchers |-> FALSE]
    /\ NoGraph

\* manifest() or tarball() is called: the first await is that of
\* self.client.lock().
CallFetch(f) ==
    \E op \in {"manifest", "tarball"} :
        /\ fpc[f] = Idle
        /\ fpc' = [fpc EXCEPT ![f] = [op |-> op, at |-> "lock"]]
        /\ UNCHANGED <<lock, cached, graphVars>>

\* packument() calls packument_from_name: a request is made only when
\* self.packument is None.
CallPackument(f) ==
    /\ fpc[f] = Idle
    /\ fpc' = [fpc EXCEPT ![f] = [op |-> "packument",
                                  at |-> IF cached[f] THEN "hit" ELSE "lock"]]
    /\ UNCHANGED <<lock, cached, graphVars>>

\* self.client.lock().await completes: the guard is this fetcher's.
AcquireLock(f) ==
    /\ fpc[f].at = "lock"
    /\ lock = None
    /\ lock' = Some(f)
    /\ fpc' = [fpc EXCEPT ![f].at = "locked"]
    /\ UNCHANGED <<cached, graphVars>>

CloneClientKeepingGuard(f) ==
    /\ fpc[f].at = "locked"
    /\ lock = Some(f)
    /\ fpc' = [fpc EXCEPT ![f].at = "send"]
    /\ UNCHANGED <<lock, cached, graphVars>>

\* .clone() of the client under the guard; the guard is a temporary of the
\* let statement and is dropped at its end.
CloneClient(f) ==
    /\ fpc[f].at = "locked"
    /\ lock = Some(f)
    /\ lock' = None
    /\ fpc' = [fpc EXCEPT ![f].at = "send"]
    /\ UNCHANGED <<cached, graphVars>>

\* client.send(opts): the request leaves on the fetcher's own clone.
SendRequest(f) ==
    /\ fpc[f].at = "send"
    /\ fpc' = [fpc EXCEPT ![f].at = "awaiting"]
    /\ UNCHANGED <<lock, cached, graphVars>>

\* send(..).await completes: with an error the operation returns it; with
\* a response tarball() returns it as the stream, manifest() and
\* packument_from_name() go on to read the body.
Respond(f) ==
    /\ fpc[f].at = "awaiting"
    /\ \E ok \in BOOLEAN :
          fpc' = [fpc EXCEPT ![f] =
                    IF ok /\ fpc[f].op # "tarball"
                    THEN [op |-> fpc[f].op, at |-> "body"]
                    ELSE Idle]
    /\ UNCHANGED <<lock, cached, graphVars>>

\* body_json / body_string completes, and for a packument the parse: the
\* packument is kept when it parsed.
BodyRead(f) ==
    /\ fpc[f].at = "body"
    /\ \E ok \in BOOLEAN :
          cached' = [cached EXCEPT ![f] = @ \/ (ok /\ fpc[f].op = "packument")]
    /\ fpc' = [fpc EXCEPT ![f] = Idle]
    /\ UNCHANGED <<lock, graphVars>>

\* packument_from_name returns the packument it holds.
ReturnCached(f) ==
    /\ fpc[f].at = "hit"
    /\ fpc' = [fpc EXCEPT ![f] = Idle]
    /\ UNCHANGED <<lock, cached, graphVars>>

NextFetch ==
    \E f \in Fetchers :
        \/ CallFetch(f)
        \/ CallPackument(f)
        \/ AcquireLock(f)
        \/ CloneClient(f)
        \/ SendRequest(f)
        \/ Respond(f)
        \/ BodyRead(f)
        \/ ReturnCached(f)

SpecFetch == InitFetch /\ [][NextFetch]_vars

\* C8: the client mutex is held only while the client is cloned: a fetcher
\* about to send, waiting for a response or reading a body does not hold
\* it, whatever the other fetchers do.
C8_LockOnlyWhileCloning ==
    \A f \in Fetchers :
        /\ fpc[f].at \in {"send", "awaiting", "body"} => lock # Some(f)
        /\ lock = Some(f) => fpc[f].at = "locked"

\* While one fetcher reads a response body, another has acquired the lock
\* for a request of its own.
C8_Witness ==
    \E f1, f2 \in Fetchers :
        /\ f1 # f2
        /\ fpc[f1].at \in {"awaiting", "body"}
        /\ lock = Some(f2)
        /\ fpc[f2].at = "locked"

====
